---- MODULE Spec2Model ----
\* Session lifecycle of reverse_api.browser.ManualBrowser: start(), the two
\* launch paths, the page-polling wait loop, close(), and the SIGINT/SIGTERM
\* handler that re-enters close() and then raises SystemExit.
\*
\* One ManualBrowser object and the single thread that drives it.  Every step
\* of the thread is one action.  A signal is first made pending by the
\* environment (Signal) and its Python handler runs before the thread's next
\* step (every step of the thread is guarded by ~sig.pending), which is how
\* CPython runs signal handlers in the main thread between two bytecodes.
\* The handler never returns to the code it interrupted: it ends with
\* sys.exit(0), whose SystemExit unwinds the interrupted frames (running the
\* finally block of _start_with_real_chrome when the interrupted code was
\* inside its try block) and ends the process.
\*
\* Environment assumptions: get_timestamp() reads a clock that never goes
\* backwards; writing metadata.json does not fail (the run directory is
\* created in __init__); a caller calls start() at most once per object and
\* never after close(); a launch call that raises has launched nothing.
\*
\* Two further objects of the package have specifications of their own over
\* their own variable, with the session left unused: config.ConfigManager
\* (SpecConfig, variable cfg) and one call of
\* engineer.APIReverseEngineer.analyze_and_generate (SpecEngineer, variable
\* eng).
EXTENDS Integers, Sequences, FiniteSets, TLC

\* ---------------------------------------------------------------- bounds
MaxClock == 3
MaxSignals == 1
MaxPages == 2
MaxCallerCloses == 2
MaxFileKeys == 2
MaxConfigCalls == 3
MaxMessages == 3

\* --------------------------------------------------------------- values
\* Python's None and a present Optional value.
None == <<>>
Some(x) == <<x>>

\* self.har_path = self.har_dir / "recording.har"
HarPath == "recording.har"

\* ------------------------------------------------- config.py values
\* DEFAULT_CONFIG (Python's None written "None").
DEFAULT_CONFIG ==
    [model |-> "claude-sonnet-4-5",
     output_dir |-> "None",
     sdk |-> "claude",
     agent_provider |-> "browser-use",
     agent_model |-> "bu-llm"]

\* The keys that files and callers use here: two keys of DEFAULT_CONFIG and
\* one key that is not in it; and the values they give them.
InputKeys == {"model", "sdk", "theme"}
InputValues == {"custom", "claude-sonnet-4-5"}

\* The dictionaries a file or a caller can hold: at most MaxFileKeys keys.
InputDicts ==
    UNION { [K -> InputValues] :
              K \in {X \in SUBSET InputKeys : Cardinality(X) <= MaxFileKeys} }

\* What the config file can be: absent; present but not openable or readable
\* (OSError); text that is not JSON (JSONDecodeError); bytes that are not
\* text in the default encoding (UnicodeDecodeError); JSON that is not an
\* object, such as a list or null; or a JSON object.
NoDict == [k \in {} |-> "custom"]
FileKinds == {"absent", "unreadable", "badjson", "undecodable", "nonobject"}
File(kind, data) == [kind |-> kind, data |-> data]

\* No ConfigManager has been constructed.
NoConfigManager ==
    [constructed |-> FALSE, config |-> DEFAULT_CONFIG,
     file |-> File("absent", NoDict),
     lastOp |-> "none", raised |-> "none",
     before |-> DEFAULT_CONFIG, calls |-> 0]

\* ----------------------------------------------- engineer.py values
\* The messages client.receive_response() can yield: an AssistantMessage
\* (with one content block), a ResultMessage with is_error false or true,
\* and any other message (system, user).
MessageKinds == {"assistant", "result_ok", "result_error", "other"}
Streams == UNION { [1..n -> MessageKinds] : n \in 0..MaxMessages }

\* str(self.scripts_dir / 'api_client.py')
ScriptPath == "api_client.py"

\* analyze_and_generate has not been called.
NoEngineerCall ==
    [phase |-> "idle", stream |-> <<>>, received |-> 0, handled |-> <<>>,
     store |-> <<>>, pending |-> "none", ret |-> "none", value |-> None,
     raisedBefore |-> FALSE, raisedInSession |-> FALSE, resultSeen |-> 0]

VARIABLES
    self,       \* the fields of the ManualBrowser object
    start_url,  \* whether start() is given a start_url
    pc,         \* position of the thread outside close()
    cpc,        \* position inside the running close(), "none" if none runs
    hdepth,     \* signal handlers entered and not finished
    end_time,   \* the local end_time of the running close()
    exc,        \* exception in flight in the thread: "none", "Exception", "SystemExit"
    path,       \* launch path taken: "none", "real", "fallback"
    sig,        \* signal state: handlers installed, a delivery pending, deliveries so far
    world,      \* everything outside the object: clock, driver, browser, files
    hist,       \* observations of the run; never read by the program's steps
    cfg,        \* a ConfigManager object, its file, and the last call made on it
    eng         \* one call of APIReverseEngineer.analyze_and_generate

vars == <<self, start_url, pc, cpc, hdepth, end_time, exc, path, sig, world, hist, cfg, eng>>

\* The variables of the ManualBrowser session, and those of the other objects.
browserVars == <<self, start_url, pc, cpc, hdepth, end_time, exc, path, sig, world, hist>>
otherObjects == <<cfg, eng>>

\* Faulty variant of Runnable: the handler does not preempt the thread, which goes on
\* with its own steps while a delivered signal waits.
RunnableDeferringSignals == pc # "exited"

\* The thread may take a step of its own: the process is alive and no signal
\* handler is waiting to run (the handlers installed by start() run in this
\* thread, before its next step).
Runnable == pc # "exited" /\ ~sig.pending

\* Positions of the thread inside the try block of _start_with_real_chrome,
\* whose finally clause deletes the temporary profile.
RealTryBlock ==
    {"r_launch", "r_ctx_store", "r_persistent", "r_page", "r_goto",
     "r_poll", "r_wait", "r_close"}

\* Positions of the polling loop (the ACTIVE state).
ActivePcs == {"r_poll", "r_wait", "f_poll", "f_wait"}

\* The thread is in the polling loop and no handler has interrupted it.
InActive == pc \in ActivePcs /\ cpc = "none" /\ hdepth = 0

\* get_timestamp(): the wall clock read now.  world.clock is the last value
\* read; the clock does not go backwards, and it may not have advanced.
Now == {t \in {world.clock, world.clock + 1} : t <= MaxClock}

\* ManualBrowser.__init__: every handle None, no start time.
Init ==
    /\ \E real \in BOOLEAN :
         self = [use_real_chrome |-> real, _playwright |-> "None",
                 _browser |-> "None", _context |-> "None",
                 _start_time |-> None, _using_persistent |-> FALSE]
    /\ start_url \in BOOLEAN
    /\ pc = "idle"
    /\ cpc = "none"
    /\ hdepth = 0
    /\ end_time = 0
    /\ exc = "none"
    /\ path = "none"
    /\ sig = [installed |-> FALSE, pending |-> FALSE, sent |-> 0]
    /\ \E prof \in BOOLEAN :
         world = [clock |-> 1, profileExists |-> prof, driver |-> "none",
                  browserProc |-> "none", ctxState |-> "none",
                  ctxKind |-> "none", ctxHar |-> FALSE, userDataDir |-> "none",
                  evasions |-> FALSE, initScript |-> FALSE,
                  pages |-> 0, polledClosed |-> FALSE,
                  harFinalized |-> FALSE, tempDir |-> "none",
                  tempDirCopied |-> FALSE, metadata |-> None]
    /\ hist = [startResult |-> "none", startReturned |-> <<>>,
               closeReturned |-> <<>>, closeTrace |-> <<>>,
               closeFailed |-> {}, atEntry |-> {}, lateEntry |-> FALSE,
               afterReturn |-> FALSE, closeEntries |-> 0,
               closeRaised |-> FALSE, callerCloses |-> 0,
               ctxCloseCalls |-> 0, brCloseCalls |-> 0, pwStopCalls |-> 0,
               metaWrites |-> 0, persistentLaunches |-> 0,
               fallbackLaunches |-> 0, everLaunched |-> FALSE,
               launchFailed |-> FALSE, navFailed |-> FALSE,
               enteredActive |-> FALSE, closedFromPoll |-> "no",
               exposedPage |-> FALSE, pollsSinceSignal |-> 0,
               signalInActive |-> FALSE,
               rmtreeTried |-> FALSE,
               rmtreeCtxOpen |-> FALSE]
    /\ cfg = NoConfigManager
    /\ eng = NoEngineerCall

\* An exception of the given kind leaves the current position of start():
\* inside the try block of _start_with_real_chrome it reaches the finally
\* clause; anywhere else nothing catches it, so start() raises it to its
\* caller ("Exception") or the process exits (SystemExit from sys.exit(0)).
\* h is the history record to store.
Propagate(kind, h) ==
    IF pc \in RealTryBlock
    THEN /\ pc' = "r_finally"
         /\ exc' = kind
         /\ hist' = h
    ELSE /\ pc' = IF kind = "SystemExit" THEN "exited" ELSE "idle"
         /\ exc' = "none"
         /\ hist' = [h EXCEPT !.startResult =
                        IF @ = "running"
                        THEN (IF kind = "SystemExit" THEN "exited" ELSE "raised")
                        ELSE @]

\* The history record at the entry of a close() invocation.
EnterCloseHist(h) ==
    [h EXCEPT !.closeEntries = @ + 1,
              !.closeTrace = <<>>,
              !.closeFailed = {},
              !.atEntry = (IF self._context # "None" THEN {"ctx"} ELSE {})
                          \cup (IF self._browser # "None" /\ ~self._using_persistent
                                THEN {"br"} ELSE {})
                          \cup (IF self._playwright # "None" THEN {"pw"} ELSE {}),
              !.lateEntry = (h.closeEntries > 0),
              !.afterReturn = (Len(h.closeReturned) > 0)]

\* ------------------------------------------------------------- start()
\* The caller calls start(): once per object, on a fresh object.
CallStart ==
    /\ Runnable /\ pc = "idle" /\ cpc = "none"
    /\ hist.startResult = "none" /\ hist.closeEntries = 0
    /\ pc' = "s_time"
    /\ hist' = [hist EXCEPT !.startResult = "running"]
    /\ UNCHANGED <<self, start_url, cpc, hdepth, end_time, exc, path, sig, world>>
    /\ UNCHANGED otherObjects

\* self._start_time = get_timestamp()
S_time ==
    /\ Runnable /\ pc = "s_time" /\ cpc = "none"
    /\ \E t \in Now :
         /\ self' = [self EXCEPT !._start_time = Some(t)]
         /\ world' = [world EXCEPT !.clock = t]
    /\ pc' = "s_signal"
    /\ UNCHANGED <<start_url, cpc, hdepth, end_time, exc, path, sig, hist>>
    /\ UNCHANGED otherObjects

\* signal.signal(SIGINT, self._handle_signal); signal.signal(SIGTERM, ...)
S_signal ==
    /\ Runnable /\ pc = "s_signal" /\ cpc = "none"
    /\ sig' = [sig EXCEPT !.installed = TRUE]
    /\ pc' = "s_playwright"
    /\ UNCHANGED <<self, start_url, cpc, hdepth, end_time, exc, path, world, hist>>
    /\ UNCHANGED otherObjects

\* sync_playwright().start(): the driver connection comes up, or the call raises.
S_playwright ==
    /\ Runnable /\ pc = "s_playwright" /\ cpc = "none"
    /\ \E ok \in BOOLEAN :
         IF ok
         THEN /\ world' = [world EXCEPT !.driver = "running"]
              /\ pc' = "s_pw_store"
              /\ UNCHANGED <<exc, hist>>
         ELSE /\ Propagate("Exception", hist)
              /\ UNCHANGED world
    /\ UNCHANGED <<self, start_url, cpc, hdepth, end_time, path, sig>>
    /\ UNCHANGED otherObjects

\* self._playwright = <the started driver>
S_pw_store ==
    /\ Runnable /\ pc = "s_pw_store" /\ cpc = "none"
    /\ self' = [self EXCEPT !._playwright = "pw"]
    /\ pc' = "s_select"
    /\ UNCHANGED <<start_url, cpc, hdepth, end_time, exc, path, sig, world, hist>>
    /\ UNCHANGED otherObjects

\* if self.use_real_chrome: _start_with_real_chrome else _start_with_stealth_chromium
S_select ==
    /\ Runnable /\ pc = "s_select" /\ cpc = "none"
    /\ IF self.use_real_chrome
       THEN pc' = "r_profile" /\ UNCHANGED path
       ELSE pc' = "f_launch" /\ path' = "fallback"
    /\ UNCHANGED <<self, start_url, cpc, hdepth, end_time, exc, sig, world, hist>>
    /\ UNCHANGED otherObjects

\* The position after the first page is ensured: page.goto when a start_url
\* was given, the polling loop otherwise.
AfterPage(prefix) ==
    IF start_url
    THEN (IF prefix = "r" THEN "r_goto" ELSE "f_goto")
    ELSE (IF prefix = "r" THEN "r_poll" ELSE "f_poll")

\* ------------------------------------------- _start_with_real_chrome
\* Faulty variant of R_profile: the absence of the profile is not checked and the
\* real-browser path is taken anyway.
R_profileUnchecked ==
    /\ Runnable /\ pc = "r_profile" /\ cpc = "none"
    /\ pc' = "r_mkdtemp" /\ path' = "real"
    /\ UNCHANGED <<self, start_url, cpc, hdepth, end_time, exc, sig, world, hist>>
    /\ UNCHANGED otherObjects

\* chrome_profile = get_chrome_profile_dir(); absent: fall back to
\* _start_with_stealth_chromium.
R_profile ==
    /\ Runnable /\ pc = "r_profile" /\ cpc = "none"
    /\ IF world.profileExists
       THEN pc' = "r_mkdtemp" /\ path' = "real"
       ELSE pc' = "f_launch" /\ path' = "fallback"
    /\ UNCHANGED <<self, start_url, cpc, hdepth, end_time, exc, sig, world, hist>>
    /\ UNCHANGED otherObjects

\* temp_profile_dir = Path(tempfile.mkdtemp(prefix="chrome_profile_")):
\* a fresh, empty directory; nothing is copied into it.
R_mkdtemp ==
    /\ Runnable /\ pc = "r_mkdtemp" /\ cpc = "none"
    /\ world' = [world EXCEPT !.tempDir = "exists", !.tempDirCopied = FALSE]
    /\ pc' = "r_launch"
    /\ UNCHANGED <<self, start_url, cpc, hdepth, end_time, exc, path, sig, hist>>
    /\ UNCHANGED otherObjects

\* Faulty variant of R_launch: a real-browser launch that raises is answered by
\* starting the fallback browser.
R_launchOrFallback ==
    /\ Runnable /\ pc = "r_launch" /\ cpc = "none"
    /\ \E ok \in BOOLEAN, n \in {0, 1} :
         IF ok
         THEN /\ world' = [world EXCEPT !.ctxState = "open",
                                        !.ctxKind = "persistent",
                                        !.ctxHar = TRUE,
                                        !.userDataDir = "temp",
                                        !.pages = n]
              /\ pc' = "r_ctx_store"
              /\ hist' = [hist EXCEPT !.persistentLaunches = @ + 1,
                                      !.everLaunched = TRUE]
         ELSE /\ world' = world
              /\ pc' = "f_launch"
              /\ hist' = [hist EXCEPT !.persistentLaunches = @ + 1,
                                      !.launchFailed = TRUE]
    /\ UNCHANGED <<self, start_url, cpc, hdepth, end_time, exc, path, sig>>
    /\ UNCHANGED otherObjects

\* launch_persistent_context(user_data_dir=temp_profile_dir, channel="chrome",
\* record_har_path=...): the context opens with zero or one page, or the
\* call raises.
R_launch ==
    /\ Runnable /\ pc = "r_launch" /\ cpc = "none"
    /\ \E ok \in BOOLEAN, n \in {0, 1} :
         IF ok
         THEN /\ world' = [world EXCEPT !.ctxState = "open",
                                        !.ctxKind = "persistent",
                                        !.ctxHar = TRUE,
                                        !.userDataDir = "temp",
                                        !.pages = n]
              /\ pc' = "r_ctx_store"
              /\ exc' = exc
              /\ hist' = [hist EXCEPT !.persistentLaunches = @ + 1,
                                      !.everLaunched = TRUE]
         ELSE /\ Propagate("Exception",
                           [hist EXCEPT !.persistentLaunches = @ + 1,
                                        !.launchFailed = TRUE])
              /\ UNCHANGED world
    /\ UNCHANGED <<self, start_url, cpc, hdepth, end_time, path, sig>>
    /\ UNCHANGED otherObjects

\* self._context = <the persistent context>
R_ctx_store ==
    /\ Runnable /\ pc = "r_ctx_store" /\ cpc = "none"
    /\ self' = [self EXCEPT !._context = "ctx"]
    /\ pc' = "r_persistent"
    /\ UNCHANGED <<start_url, cpc, hdepth, end_time, exc, path, sig, world, hist>>
    /\ UNCHANGED otherObjects

\* Faulty variant of R_persistent: the persistent context is kept as an ordinary
\* Browser Handle and the persistent flag is not set.
R_persistentAsBrowser ==
    /\ Runnable /\ pc = "r_persistent" /\ cpc = "none"
    /\ self' = [self EXCEPT !._browser = "browser"]
    /\ pc' = "r_page"
    /\ UNCHANGED <<start_url, cpc, hdepth, end_time, exc, path, sig, world, hist>>
    /\ UNCHANGED otherObjects

\* self._using_persistent = True
R_persistent ==
    /\ Runnable /\ pc = "r_persistent" /\ cpc = "none"
    /\ self' = [self EXCEPT !._using_persistent = TRUE]
    /\ pc' = "r_page"
    /\ UNCHANGED <<start_url, cpc, hdepth, end_time, exc, path, sig, world, hist>>
    /\ UNCHANGED otherObjects

\* Faulty variant of R_page: the first page of the context is taken for granted
\* and none is opened when the context has no page.
R_pageReuseOnly ==
    /\ Runnable /\ pc = "r_page" /\ cpc = "none"
    /\ pc' = AfterPage("r")
    /\ hist' = [hist EXCEPT !.enteredActive = @ \/ ~start_url]
    /\ UNCHANGED <<self, start_url, cpc, hdepth, end_time, exc, path, sig, world>>
    /\ UNCHANGED otherObjects

\* page = self._context.pages[0] if self._context.pages else self._context.new_page()
R_page ==
    /\ Runnable /\ pc = "r_page" /\ cpc = "none"
    /\ IF world.pages > 0
       THEN /\ pc' = AfterPage("r")
            /\ hist' = [hist EXCEPT !.enteredActive = @ \/ ~start_url]
            /\ UNCHANGED <<world, exc>>
       ELSE \E ok \in BOOLEAN :
              IF ok
              THEN /\ world' = [world EXCEPT !.pages = 1]
                   /\ pc' = AfterPage("r")
                   /\ hist' = [hist EXCEPT !.enteredActive = @ \/ ~start_url]
                   /\ exc' = exc
              ELSE /\ Propagate("Exception", hist)
                   /\ UNCHANGED world
    /\ UNCHANGED <<self, start_url, cpc, hdepth, end_time, path, sig>>
    /\ UNCHANGED otherObjects

\* if start_url: page.goto(start_url, wait_until="domcontentloaded")
\* (not inside any except clause: a navigation error leaves the function)
Goto(next) ==
    /\ Runnable /\ cpc = "none"
    /\ \E ok \in BOOLEAN :
         IF ok
         THEN /\ pc' = next
              /\ hist' = [hist EXCEPT !.enteredActive = TRUE]
              /\ exc' = exc
         ELSE Propagate("Exception", [hist EXCEPT !.navFailed = TRUE])
    /\ UNCHANGED <<self, start_url, cpc, hdepth, end_time, path, sig, world>>
    /\ UNCHANGED otherObjects

R_goto == pc = "r_goto" /\ Goto("r_poll")

\* Faulty variant of PollCheck: the loop condition is not the set of open pages
\* and the loop goes on waiting when no page is left.
PollCheckForever(wait, done) ==
    /\ Runnable /\ cpc = "none"
    /\ pc' = wait
    /\ world' = [world EXCEPT !.polledClosed = FALSE]
    /\ UNCHANGED <<self, start_url, cpc, hdepth, end_time, exc, path, sig, hist>>
    /\ UNCHANGED otherObjects

\* while self._context.pages: ... ; the loop ends when no page is open.
PollCheck(wait, done) ==
    /\ Runnable /\ cpc = "none"
    /\ IF world.pages > 0
       THEN /\ pc' = wait
            /\ world' = [world EXCEPT !.polledClosed = FALSE]
            /\ hist' = hist
       ELSE /\ pc' = done
            /\ world' = world
            /\ hist' = [hist EXCEPT !.closedFromPoll = "empty"]
    /\ UNCHANGED <<self, start_url, cpc, hdepth, end_time, exc, path, sig>>
    /\ UNCHANGED otherObjects

\* self._context.pages[0].wait_for_timeout(100) returns after the interval,
\* or raises because the polled page was closed meanwhile; "except Exception:
\* pass" then ends the loop.
PollWait(check, done) ==
    /\ Runnable /\ cpc = "none"
    /\ IF world.polledClosed
       THEN /\ pc' = done
            /\ hist' = [hist EXCEPT !.closedFromPoll =
                           IF world.pages > 0 THEN "pagesOpen" ELSE "empty"]
       ELSE /\ pc' = check
            /\ hist' = [hist EXCEPT !.pollsSinceSignal =
                           IF hist.signalInActive THEN @ + 1 ELSE @]
    /\ UNCHANGED <<self, start_url, cpc, hdepth, end_time, exc, path, sig, world>>
    /\ UNCHANGED otherObjects

R_poll == pc = "r_poll" /\ PollCheck("r_wait", "r_close")
R_wait == pc = "r_wait" /\ PollWait("r_poll", "r_close")

\* Faulty variant of CallCloseAt: the launch path returns self.har_path without
\* running the teardown stages of close().
CallCloseAtSkipped(site) ==
    /\ Runnable /\ pc = site /\ cpc = "none"
    /\ cpc' = "ret"
    /\ hist' = EnterCloseHist(hist)
    /\ UNCHANGED <<self, start_url, pc, hdepth, end_time, exc, path, sig, world>>
    /\ UNCHANGED otherObjects

\* return self.close(): the call of close() from a launch path or from the caller
CallCloseAt(site) ==
    /\ Runnable /\ pc = site /\ cpc = "none"
    /\ cpc' = "c_time"
    /\ hist' = EnterCloseHist(hist)
    /\ UNCHANGED <<self, start_url, pc, hdepth, end_time, exc, path, sig, world>>
    /\ UNCHANGED otherObjects

R_close == CallCloseAt("r_close")

\* finally: shutil.rmtree(temp_profile_dir, ignore_errors=True); then the
\* return value or the exception in flight leaves start().
R_finally ==
    /\ Runnable /\ pc = "r_finally" /\ cpc = "none"
    /\ \E ok \in BOOLEAN :
         world' = [world EXCEPT !.tempDir = IF ok THEN "deleted" ELSE @]
    /\ pc' = IF exc = "SystemExit" THEN "exited" ELSE "idle"
    /\ exc' = "none"
    /\ hist' = [hist EXCEPT
                  !.startResult = CASE exc = "none" -> "returned"
                                    [] exc = "Exception" -> "raised"
                                    [] OTHER -> "exited",
                  !.startReturned = IF exc = "none" THEN Append(@, HarPath) ELSE @,
                  !.rmtreeTried = TRUE,
                  !.rmtreeCtxOpen = (world.ctxState = "open")]
    /\ UNCHANGED <<self, start_url, cpc, hdepth, end_time, path, sig>>
    /\ UNCHANGED otherObjects

\* --------------------------------------- _start_with_stealth_chromium
\* self._playwright.chromium.launch(headless=False, args=chrome_args, ...)
F_launch ==
    /\ Runnable /\ pc = "f_launch" /\ cpc = "none"
    /\ \E ok \in BOOLEAN :
         IF ok
         THEN /\ world' = [world EXCEPT !.browserProc = "open"]
              /\ pc' = "f_browser_store"
              /\ exc' = exc
              /\ hist' = [hist EXCEPT !.fallbackLaunches = @ + 1,
                                      !.everLaunched = TRUE]
         ELSE /\ Propagate("Exception",
                           [hist EXCEPT !.fallbackLaunches = @ + 1,
                                        !.launchFailed = TRUE])
              /\ UNCHANGED world
    /\ UNCHANGED <<self, start_url, cpc, hdepth, end_time, path, sig>>
    /\ UNCHANGED otherObjects

\* self._browser = <the launched browser>
F_browser_store ==
    /\ Runnable /\ pc = "f_browser_store" /\ cpc = "none"
    /\ self' = [self EXCEPT !._browser = "browser"]
    /\ pc' = "f_new_context"
    /\ UNCHANGED <<start_url, cpc, hdepth, end_time, exc, path, sig, world, hist>>
    /\ UNCHANGED otherObjects

\* self._browser.new_context(record_har_path=..., record_har_content="attach", ...)
F_new_context ==
    /\ Runnable /\ pc = "f_new_context" /\ cpc = "none"
    /\ \E ok \in BOOLEAN :
         IF ok
         THEN /\ world' = [world EXCEPT !.ctxState = "open",
                                        !.ctxKind = "ephemeral",
                                        !.ctxHar = TRUE,
                                        !.pages = 0]
              /\ pc' = "f_ctx_store"
              /\ UNCHANGED <<exc, hist>>
         ELSE /\ Propagate("Exception", [hist EXCEPT !.launchFailed = TRUE])
              /\ UNCHANGED world
    /\ UNCHANGED <<self, start_url, cpc, hdepth, end_time, path, sig>>
    /\ UNCHANGED otherObjects

\* Faulty variant of F_ctx_store: the first page is created right after the
\* context is stored, before the overrides are registered.
F_ctx_storePageFirst ==
    /\ Runnable /\ pc = "f_ctx_store" /\ cpc = "none"
    /\ self' = [self EXCEPT !._context = "ctx"]
    /\ pc' = "f_page"
    /\ UNCHANGED <<start_url, cpc, hdepth, end_time, exc, path, sig, world, hist>>
    /\ UNCHANGED otherObjects

\* self._context = <the new context>
F_ctx_store ==
    /\ Runnable /\ pc = "f_ctx_store" /\ cpc = "none"
    /\ self' = [self EXCEPT !._context = "ctx"]
    /\ pc' = "f_stealth"
    /\ UNCHANGED <<start_url, cpc, hdepth, end_time, exc, path, sig, world, hist>>
    /\ UNCHANGED otherObjects

\* Stealth().apply_stealth_sync(self._context)
F_stealth ==
    /\ Runnable /\ pc = "f_stealth" /\ cpc = "none"
    /\ \E ok \in BOOLEAN :
         IF ok
         THEN /\ world' = [world EXCEPT !.evasions = TRUE]
              /\ pc' = "f_init_script"
              /\ UNCHANGED <<exc, hist>>
         ELSE /\ Propagate("Exception", hist)
              /\ UNCHANGED world
    /\ UNCHANGED <<self, start_url, cpc, hdepth, end_time, path, sig>>
    /\ UNCHANGED otherObjects

\* self._context.add_init_script(STEALTH_JS)
F_init_script ==
    /\ Runnable /\ pc = "f_init_script" /\ cpc = "none"
    /\ \E ok \in BOOLEAN :
         IF ok
         THEN /\ world' = [world EXCEPT !.initScript = TRUE]
              /\ pc' = "f_page"
              /\ UNCHANGED <<exc, hist>>
         ELSE /\ Propagate("Exception", hist)
              /\ UNCHANGED world
    /\ UNCHANGED <<self, start_url, cpc, hdepth, end_time, path, sig>>
    /\ UNCHANGED otherObjects

\* page = self._context.new_page()
F_page ==
    /\ Runnable /\ pc = "f_page" /\ cpc = "none"
    /\ \E ok \in BOOLEAN :
         IF ok
         THEN /\ world' = [world EXCEPT !.pages = @ + 1]
              /\ pc' = AfterPage("f")
              /\ exc' = exc
              /\ hist' = [hist EXCEPT
                            !.enteredActive = @ \/ ~start_url,
                            !.exposedPage = @ \/ ~(world.evasions /\ world.initScript)]
         ELSE /\ Propagate("Exception", hist)
              /\ UNCHANGED world
    /\ UNCHANGED <<self, start_url, cpc, hdepth, end_time, path, sig>>
    /\ UNCHANGED otherObjects

F_goto == pc = "f_goto" /\ Goto("f_poll")
F_poll == pc = "f_poll" /\ PollCheck("f_wait", "f_close")
F_wait == pc = "f_wait" /\ PollWait("f_poll", "f_close")
F_close == CallCloseAt("f_close")

\* ------------------------------------------------------------- close()
\* Faulty variant of CloseOrder: the top-level browser is closed before its context.
CloseOrderBrowserFirst == <<"br", "ctx", "pw", "meta">>

\* The order in which close() takes its teardown stages: context, top-level
\* browser, driver connection, metadata.
CloseOrder == <<"ctx", "br", "pw", "meta">>

\* The position of close() after the stage s: the next stage, or the return.
StageAfter(s) ==
    LET i == CHOOSE k \in 1..Len(CloseOrder) : CloseOrder[k] = s
    IN IF i < Len(CloseOrder) THEN CloseOrder[i + 1] ELSE "ret"

\* end_time = get_timestamp()
C_time ==
    /\ Runnable /\ cpc = "c_time"
    /\ \E t \in Now :
         /\ end_time' = t
         /\ world' = [world EXCEPT !.clock = t]
    /\ cpc' = CloseOrder[1]
    /\ UNCHANGED <<self, start_url, pc, hdepth, exc, path, sig, hist>>
    /\ UNCHANGED otherObjects

\* Faulty variant of C_ctx: the context handle is given up without calling
\* self._context.close().
C_ctxNeverClosed ==
    /\ Runnable /\ cpc = "ctx"
    /\ cpc' = IF self._context # "None" THEN "ctx_clear" ELSE StageAfter("ctx")
    /\ UNCHANGED <<self, start_url, pc, hdepth, end_time, exc, path, sig, world, hist>>
    /\ UNCHANGED otherObjects

\* if self._context: try: self._context.close() except Exception: pass
\* A close that succeeds finalizes the HAR archive.  (ctxState, browserProc
\* and driver record that the close or stop was issued; whether a call that
\* raised took effect is not observed by the program.)
C_ctx ==
    /\ Runnable /\ cpc = "ctx"
    /\ IF self._context # "None"
       THEN \E ok \in BOOLEAN :
              /\ world' = [world EXCEPT
                             !.ctxState = "closed",
                             !.pages = 0,
                             !.harFinalized = @ \/ (ok /\ world.ctxHar)]
              /\ hist' = [hist EXCEPT !.ctxCloseCalls = @ + 1,
                                      !.closeTrace = Append(@, "ctx"),
                                      !.closeFailed = IF ok THEN @ ELSE @ \cup {"ctx"}]
              /\ cpc' = "ctx_clear"
       ELSE /\ cpc' = StageAfter("ctx")
            /\ UNCHANGED <<world, hist>>
    /\ UNCHANGED <<self, start_url, pc, hdepth, end_time, exc, path, sig>>
    /\ UNCHANGED otherObjects

\* Faulty variant of C_ctx_clear: the handle is kept after the context was closed.
C_ctx_keep ==
    /\ Runnable /\ cpc = "ctx_clear"
    /\ cpc' = StageAfter("ctx")
    /\ UNCHANGED <<self, start_url, pc, hdepth, end_time, exc, path, sig, world, hist>>
    /\ UNCHANGED otherObjects

\* self._context = None
C_ctx_clear ==
    /\ Runnable /\ cpc = "ctx_clear"
    /\ self' = [self EXCEPT !._context = "None"]
    /\ cpc' = StageAfter("ctx")
    /\ UNCHANGED <<start_url, pc, hdepth, end_time, exc, path, sig, world, hist>>
    /\ UNCHANGED otherObjects

\* Faulty variant of C_br: no "except Exception: pass" around self._browser.close(),
\* so its failure leaves close().
C_brUnguarded ==
    /\ Runnable /\ cpc = "br"
    /\ IF self._browser # "None" /\ ~self._using_persistent
       THEN \E ok \in BOOLEAN :
              /\ world' = [world EXCEPT !.browserProc = "closed"]
              /\ IF ok
                 THEN /\ hist' = [hist EXCEPT !.brCloseCalls = @ + 1,
                                              !.closeTrace = Append(@, "br")]
                      /\ cpc' = "br_clear"
                      /\ UNCHANGED <<pc, exc, hdepth>>
                 ELSE /\ cpc' = "none"
                      /\ hdepth' = 0
                      /\ Propagate("Exception",
                                   [hist EXCEPT !.brCloseCalls = @ + 1,
                                                !.closeTrace = Append(@, "br"),
                                                !.closeFailed = @ \cup {"br"},
                                                !.closeRaised = TRUE])
       ELSE /\ cpc' = StageAfter("br")
            /\ UNCHANGED <<world, hist, pc, exc, hdepth>>
    /\ UNCHANGED <<self, start_url, end_time, path, sig>>
    /\ UNCHANGED otherObjects

\* if self._browser and not self._using_persistent:
\*     try: self._browser.close() except Exception: pass
C_br ==
    /\ Runnable /\ cpc = "br"
    /\ IF self._browser # "None" /\ ~self._using_persistent
       THEN \E ok \in BOOLEAN :
              /\ world' = [world EXCEPT !.browserProc = "closed"]
              /\ hist' = [hist EXCEPT !.brCloseCalls = @ + 1,
                                      !.closeTrace = Append(@, "br"),
                                      !.closeFailed = IF ok THEN @ ELSE @ \cup {"br"}]
              /\ cpc' = "br_clear"
       ELSE /\ cpc' = StageAfter("br")
            /\ UNCHANGED <<world, hist>>
    /\ UNCHANGED <<self, start_url, pc, hdepth, end_time, exc, path, sig>>
    /\ UNCHANGED otherObjects

\* self._browser = None
C_br_clear ==
    /\ Runnable /\ cpc = "br_clear"
    /\ self' = [self EXCEPT !._browser = "None"]
    /\ cpc' = StageAfter("br")
    /\ UNCHANGED <<start_url, pc, hdepth, end_time, exc, path, sig, world, hist>>
    /\ UNCHANGED otherObjects

\* Faulty variant of C_pw: the driver stop is issued without testing that a
\* driver handle is held.
C_pwUnguarded ==
    /\ Runnable /\ cpc = "pw"
    /\ \E ok \in BOOLEAN :
         /\ world' = [world EXCEPT !.driver = IF @ = "none" THEN @ ELSE "stopped"]
         /\ hist' = [hist EXCEPT !.pwStopCalls = @ + 1,
                                 !.closeTrace = Append(@, "pw"),
                                 !.closeFailed = IF ok THEN @ ELSE @ \cup {"pw"}]
         /\ cpc' = "pw_clear"
    /\ UNCHANGED <<self, start_url, pc, hdepth, end_time, exc, path, sig>>
    /\ UNCHANGED otherObjects

\* if self._playwright: try: self._playwright.stop() except Exception: pass
C_pw ==
    /\ Runnable /\ cpc = "pw"
    /\ IF self._playwright # "None"
       THEN \E ok \in BOOLEAN :
              /\ world' = [world EXCEPT !.driver = "stopped"]
              /\ hist' = [hist EXCEPT !.pwStopCalls = @ + 1,
                                      !.closeTrace = Append(@, "pw"),
                                      !.closeFailed = IF ok THEN @ ELSE @ \cup {"pw"}]
              /\ cpc' = "pw_clear"
       ELSE /\ cpc' = StageAfter("pw")
            /\ UNCHANGED <<world, hist>>
    /\ UNCHANGED <<self, start_url, pc, hdepth, end_time, exc, path, sig>>
    /\ UNCHANGED otherObjects

\* self._playwright = None
C_pw_clear ==
    /\ Runnable /\ cpc = "pw_clear"
    /\ self' = [self EXCEPT !._playwright = "None"]
    /\ cpc' = StageAfter("pw")
    /\ UNCHANGED <<start_url, pc, hdepth, end_time, exc, path, sig, world, hist>>
    /\ UNCHANGED otherObjects

\* Faulty variant of MetadataRecord: har_file is given the metadata file's own path.
MetadataRecordWrongPath(end) ==
    [start_time |-> self._start_time, end_time |-> end, har_file |-> "metadata.json"]

\* Faulty variant of MetadataRecord: the record takes the time of the close() that
\* writes it as the session's start time.
MetadataRecordRestarted(end) ==
    [start_time |-> Some(end), end_time |-> end, har_file |-> HarPath]

\* _save_metadata(end_time): the record written to metadata.json
MetadataRecord(end) ==
    [start_time |-> self._start_time, end_time |-> end, har_file |-> HarPath]

\* self._save_metadata(end_time)
C_meta ==
    /\ Runnable /\ cpc = "meta"
    /\ world' = [world EXCEPT !.metadata = Some(MetadataRecord(end_time))]
    /\ hist' = [hist EXCEPT !.metaWrites = @ + 1,
                            !.closeTrace = Append(@, "meta")]
    /\ cpc' = StageAfter("meta")
    /\ UNCHANGED <<self, start_url, pc, hdepth, end_time, exc, path, sig>>
    /\ UNCHANGED otherObjects

\* return self.har_path: to the signal handler (which goes on to
\* sys.exit(0)), to the launch path that called close() (the fallback path
\* returns it from start(), the real path passes through its finally
\* clause), or to the caller of close().
C_ret ==
    /\ Runnable /\ cpc = "ret"
    /\ IF hdepth > 0
       THEN /\ cpc' = "h_exit"
            /\ pc' = pc
            /\ hist' = [hist EXCEPT !.closeReturned = Append(@, HarPath),
                                    !.closeFailed = {}]
       ELSE /\ cpc' = "none"
            /\ pc' = CASE pc = "r_close" -> "r_finally"
                       [] OTHER -> "idle"
            /\ hist' = [hist EXCEPT
                          !.closeReturned = Append(@, HarPath),
                          !.closeFailed = {},
                          !.startResult = IF pc = "f_close" THEN "returned" ELSE @,
                          !.startReturned = IF pc = "f_close" THEN Append(@, HarPath) ELSE @]
    /\ end_time' = 0
    /\ UNCHANGED <<self, start_url, hdepth, exc, path, sig, world>>
    /\ UNCHANGED otherObjects

\* The caller calls close() itself: before start(), after start() returned,
\* or after start() raised.
CallClose ==
    /\ Runnable /\ pc = "idle" /\ cpc = "none"
    /\ hist.callerCloses < MaxCallerCloses
    /\ pc' = "caller_close"
    /\ cpc' = "c_time"
    /\ hist' = [EnterCloseHist(hist) EXCEPT !.callerCloses = @ + 1]
    /\ UNCHANGED <<self, start_url, hdepth, end_time, exc, path, sig, world>>
    /\ UNCHANGED otherObjects

\* ------------------------------------------------------------- signals
\* SIGINT or SIGTERM is delivered to the process once the handlers are set.
Signal ==
    /\ pc # "exited"
    /\ sig.installed /\ ~sig.pending /\ sig.sent < MaxSignals
    /\ sig' = [sig EXCEPT !.pending = TRUE, !.sent = @ + 1]
    /\ hist' = IF InActive
               THEN [hist EXCEPT !.signalInActive = TRUE, !.pollsSinceSignal = 0]
               ELSE hist
    /\ UNCHANGED <<self, start_url, pc, cpc, hdepth, end_time, exc, path, world>>
    /\ UNCHANGED otherObjects

\* _handle_signal(signum, frame): self.close() ...  The handler starts a new
\* close() on top of whatever the thread was doing, which never resumes.
HandleSignal ==
    /\ pc # "exited" /\ sig.pending
    /\ sig' = [sig EXCEPT !.pending = FALSE]
    /\ hdepth' = hdepth + 1
    /\ cpc' = "c_time"
    /\ hist' = EnterCloseHist(hist)
    /\ UNCHANGED <<self, start_url, pc, end_time, exc, path, world>>
    /\ UNCHANGED otherObjects

\* ... sys.exit(0): SystemExit unwinds the handler and the interrupted frames.
H_exit ==
    /\ Runnable /\ cpc = "h_exit"
    /\ hdepth' = 0
    /\ cpc' = "none"
    /\ Propagate("SystemExit", hist)
    /\ UNCHANGED <<self, start_url, end_time, path, sig, world>>
    /\ UNCHANGED otherObjects

\* --------------------------------------------------------- environment
\* The user acts on the browser while the session waits in the polling loop
\* (the only place, with the first-page step, where the program reads the
\* pages of the context).
\* The user opens another page (tab) of the open context.
UserOpenPage ==
    /\ pc \in ActivePcs /\ cpc = "none"
    /\ world.ctxState = "open" /\ world.pages > 0 /\ world.pages < MaxPages
    /\ world' = [world EXCEPT !.pages = @ + 1]
    /\ UNCHANGED <<self, start_url, pc, cpc, hdepth, end_time, exc, path, sig, hist>>
    /\ UNCHANGED otherObjects

\* The user closes a page: the first one (the one the loop polls) or another.
UserClosePage ==
    /\ pc \in ActivePcs /\ cpc = "none"
    /\ world.ctxState = "open" /\ world.pages > 0
    /\ \E first \in BOOLEAN :
         /\ ~first => world.pages > 1
         /\ world' = [world EXCEPT
                        !.pages = @ - 1,
                        !.polledClosed = @ \/ (first /\ pc \in {"r_wait", "f_wait"})]
    /\ UNCHANGED <<self, start_url, pc, cpc, hdepth, end_time, exc, path, sig, hist>>
    /\ UNCHANGED otherObjects

Next ==
    \/ CallStart \/ S_time \/ S_signal \/ S_playwright \/ S_pw_store \/ S_select
    \/ R_profile \/ R_mkdtemp \/ R_launch \/ R_ctx_store \/ R_persistent
    \/ R_page \/ R_goto \/ R_poll \/ R_wait \/ R_close \/ R_finally
    \/ F_launch \/ F_browser_store \/ F_new_context \/ F_ctx_store
    \/ F_stealth \/ F_init_script \/ F_page \/ F_goto \/ F_poll \/ F_wait
    \/ F_close
    \/ C_time \/ C_ctx \/ C_ctx_clear \/ C_br \/ C_br_clear \/ C_pw
    \/ C_pw_clear \/ C_meta \/ C_ret \/ CallClose
    \/ Signal \/ HandleSignal \/ H_exit
    \/ UserOpenPage \/ UserClosePage

Spec == Init /\ [][Next]_vars

\* The steps the interpreter takes on its own: every statement of start(),
\* of the launch paths and of close(), and the signal handler.  What the
\* caller, the user and the sender of signals do is not among them.
ThreadStep ==
    \/ S_time \/ S_signal \/ S_playwright \/ S_pw_store \/ S_select
    \/ R_profile \/ R_mkdtemp \/ R_launch \/ R_ctx_store \/ R_persistent
    \/ R_page \/ R_goto \/ R_poll \/ R_wait \/ R_close \/ R_finally
    \/ F_launch \/ F_browser_store \/ F_new_context \/ F_ctx_store
    \/ F_stealth \/ F_init_script \/ F_page \/ F_goto \/ F_poll \/ F_wait
    \/ F_close
    \/ C_time \/ C_ctx \/ C_ctx_clear \/ C_br \/ C_br_clear \/ C_pw
    \/ C_pw_clear \/ C_meta \/ C_ret
    \/ HandleSignal \/ H_exit

\* One session from start() to its end: the caller calls start() and nothing
\* else (its own calls of close() can only come before start() or after
\* start() has ended, where pc = "idle"), the user acts on the pages, and
\* signals arrive.
SessionNext ==
    \/ CallStart \/ ThreadStep \/ Signal \/ UserOpenPage \/ UserClosePage

\* The single thread keeps running: a statement that can be executed is
\* executed, wait_for_timeout(100) returns or raises after its interval, and
\* every teardown call returns or raises.
SpecFair == Init /\ [][SessionNext]_vars /\ WF_vars(ThreadStep)

\* ===================================================== ConfigManager
\* dict.update: the keys of d are set in config, new keys are added.
DictUpdate(config, d) ==
    [k \in DOMAIN config \cup DOMAIN d |->
        IF k \in DOMAIN d THEN d[k] ELSE config[k]]

\* valid_config = {k: v for k, v in user_config.items() if k in self.config}
ValidConfig(user_config, config) ==
    [k \in DOMAIN user_config \cap DOMAIN config |-> user_config[k]]

\* load() on the given config and file: the exception it raises ("none" if
\* it returns) and the config it leaves.  Only json.JSONDecodeError and
\* OSError are caught.
LoadOutcome(config, file) ==
    CASE file.kind = "absent" -> [raised |-> "none", config |-> config]
      [] file.kind = "unreadable" -> [raised |-> "none", config |-> config]
      [] file.kind = "badjson" -> [raised |-> "none", config |-> config]
      [] file.kind = "undecodable" -> [raised |-> "UnicodeDecodeError", config |-> config]
      [] file.kind = "nonobject" -> [raised |-> "AttributeError", config |-> config]
      [] OTHER -> [raised |-> "none",
                   config |-> DictUpdate(config, ValidConfig(file.data, config))]

\* No ManualBrowser session is run: the object as constructed, never started.
BrowserUnused ==
    /\ self = [use_real_chrome |-> FALSE, _playwright |-> "None",
               _browser |-> "None", _context |-> "None",
               _start_time |-> None, _using_persistent |-> FALSE]
    /\ start_url = FALSE
    /\ pc = "idle" /\ cpc = "none" /\ hdepth = 0 /\ end_time = 0
    /\ exc = "none" /\ path = "none"
    /\ sig = [installed |-> FALSE, pending |-> FALSE, sent |-> 0]
    /\ world = [clock |-> 1, profileExists |-> FALSE, driver |-> "none",
                browserProc |-> "none", ctxState |-> "none",
                ctxKind |-> "none", ctxHar |-> FALSE, userDataDir |-> "none",
                evasions |-> FALSE, initScript |-> FALSE,
                pages |-> 0, polledClosed |-> FALSE,
                harFinalized |-> FALSE, tempDir |-> "none",
                tempDirCopied |-> FALSE, metadata |-> None]
    /\ hist = [startResult |-> "none", startReturned |-> <<>>,
               closeReturned |-> <<>>, closeTrace |-> <<>>,
               closeFailed |-> {}, atEntry |-> {}, lateEntry |-> FALSE,
               afterReturn |-> FALSE, closeEntries |-> 0,
               closeRaised |-> FALSE, callerCloses |-> 0,
               ctxCloseCalls |-> 0, brCloseCalls |-> 0, pwStopCalls |-> 0,
               metaWrites |-> 0, persistentLaunches |-> 0,
               fallbackLaunches |-> 0, everLaunched |-> FALSE,
               launchFailed |-> FALSE, navFailed |-> FALSE,
               enteredActive |-> FALSE, closedFromPoll |-> "no",
               exposedPage |-> FALSE, pollsSinceSignal |-> 0,
               signalInActive |-> FALSE,
               rmtreeTried |-> FALSE,
               rmtreeCtxOpen |-> FALSE]

\* The config file as the configuration's start: no manager yet.
ConfigInit ==
    /\ BrowserUnused
    /\ eng = NoEngineerCall
    /\ \E kind \in FileKinds \cup {"object"}, d \in InputDicts :
         /\ kind # "object" => d = NoDict
         /\ cfg = [NoConfigManager EXCEPT !.file = File(kind, d)]

\* ConfigManager(config_path): self.config = DEFAULT_CONFIG.copy();
\* self.load().  If load() raises, no object is constructed.
ConfigManager__init__ ==
    /\ ~cfg.constructed /\ cfg.calls < MaxConfigCalls
    /\ LET out == LoadOutcome(DEFAULT_CONFIG, cfg.file) IN
         cfg' = [cfg EXCEPT !.constructed = (out.raised = "none"),
                            !.config = out.config,
                            !.lastOp = "init",
                            !.raised = out.raised,
                            !.before = DEFAULT_CONFIG,
                            !.calls = @ + 1]
    /\ UNCHANGED <<browserVars, eng>>

\* load()
ConfigLoad ==
    /\ cfg.constructed /\ cfg.calls < MaxConfigCalls
    /\ LET out == LoadOutcome(cfg.config, cfg.file) IN
         cfg' = [cfg EXCEPT !.config = out.config,
                            !.lastOp = "load",
                            !.raised = out.raised,
                            !.before = cfg.config,
                            !.calls = @ + 1]
    /\ UNCHANGED <<browserVars, eng>>

\* save(): mkdir, open(config_path, "w"), json.dump; an OSError is not
\* caught.  The state after the given config was assigned and save() ran.
Saved(op, config, ok) ==
    [cfg EXCEPT !.config = config,
                !.file = IF ok THEN File("object", config) ELSE @,
                !.lastOp = op,
                !.raised = IF ok THEN "none" ELSE "OSError",
                !.before = cfg.config,
                !.calls = @ + 1]

ConfigSave ==
    /\ cfg.constructed /\ cfg.calls < MaxConfigCalls
    /\ \E ok \in BOOLEAN : cfg' = Saved("save", cfg.config, ok)
    /\ UNCHANGED <<browserVars, eng>>

\* set(key, value): self.config[key] = value; self.save()
ConfigSet ==
    /\ cfg.constructed /\ cfg.calls < MaxConfigCalls
    /\ \E key \in InputKeys, value \in InputValues, ok \in BOOLEAN :
         cfg' = Saved("set", DictUpdate(cfg.config, [k \in {key} |-> value]), ok)
    /\ UNCHANGED <<browserVars, eng>>

\* update(settings): self.config.update(settings); self.save()
ConfigUpdate ==
    /\ cfg.constructed /\ cfg.calls < MaxConfigCalls
    /\ \E settings \in InputDicts, ok \in BOOLEAN :
         cfg' = Saved("update", DictUpdate(cfg.config, settings), ok)
    /\ UNCHANGED <<browserVars, eng>>

\* Something else rewrites, damages or removes the config file (the record
\* of the last call is dropped: it described the file as it was).
FileChanges ==
    /\ \E kind \in FileKinds \cup {"object"}, d \in InputDicts :
         /\ kind # "object" => d = NoDict
         /\ File(kind, d) # cfg.file
         /\ cfg' = [cfg EXCEPT !.file = File(kind, d),
                               !.lastOp = "none",
                               !.raised = "none",
                               !.before = cfg.config]
    /\ UNCHANGED <<browserVars, eng>>

ConfigNext ==
    \/ ConfigManager__init__ \/ ConfigLoad \/ ConfigSave \/ ConfigSet
    \/ ConfigUpdate \/ FileChanges

SpecConfig == ConfigInit /\ [][ConfigNext]_vars

\* ================================================ APIReverseEngineer
\* One call of analyze_and_generate.  The calls that can fail are those of
\* the client (connect, query, the response stream, disconnect) and those
\* of the message store (file writes); the console never fails.  The usage
\* accounting (lines 101-102 and 140-169) only fills the "usage" entry of
\* the result and is part of handling the message.

\* result = {"script_path": script_path, "usage": self.usage_metadata}
ResultDict == [script_path |-> ScriptPath]

\* An exception is raised inside the try block: "except Exception" gets it.
\* e is the call's record at that point.
RaisedInSession(e) ==
    [e EXCEPT !.phase = "except",
              !.pending = "none",
              !.raisedInSession = TRUE,
              !.raisedBefore = @ \/ (e.resultSeen = 0)]

EngineerInit ==
    /\ BrowserUnused
    /\ cfg = NoConfigManager
    /\ eng = NoEngineerCall

\* analyze_and_generate() is called; the agent will answer with some stream.
E_call ==
    /\ eng.phase = "idle"
    /\ \E st \in Streams :
         eng' = [eng EXCEPT !.phase = "save_prompt", !.stream = st]
    /\ UNCHANGED <<browserVars, cfg>>

\* self.message_store.save_prompt(...), before the try block
E_save_prompt ==
    /\ eng.phase = "save_prompt"
    /\ \E ok \in BOOLEAN :
         eng' = IF ok
                THEN [eng EXCEPT !.phase = "enter", !.store = Append(@, "prompt")]
                ELSE [eng EXCEPT !.phase = "done", !.ret = "raised"]
    /\ UNCHANGED <<browserVars, cfg>>

\* async with ClaudeSDKClient(options=options) as client
E_enter ==
    /\ eng.phase = "enter"
    /\ \E ok \in BOOLEAN :
         eng' = IF ok THEN [eng EXCEPT !.phase = "query"] ELSE RaisedInSession(eng)
    /\ UNCHANGED <<browserVars, cfg>>

\* await client.query(...)
E_query ==
    /\ eng.phase = "query"
    /\ \E ok \in BOOLEAN :
         eng' = IF ok THEN [eng EXCEPT !.phase = "recv"] ELSE RaisedInSession(eng)
    /\ UNCHANGED <<browserVars, cfg>>

\* async for message in client.receive_response(): the next message
\* arrives, or the stream raises, or the stream is over and the function
\* goes to its last "return None" through the end of the async with.
E_recv ==
    /\ eng.phase = "recv"
    /\ \E ok \in BOOLEAN :
         eng' = IF ~ok
                THEN RaisedInSession(eng)
                ELSE IF eng.received < Len(eng.stream)
                THEN LET n == eng.received + 1 IN
                     [eng EXCEPT !.phase = "handle",
                                 !.received = n,
                                 !.resultSeen =
                                    IF @ = 0 /\ eng.stream[n] \in {"result_ok", "result_error"}
                                    THEN n ELSE @]
                ELSE [eng EXCEPT !.phase = "exit", !.pending = "None"]
    /\ UNCHANGED <<browserVars, cfg>>

\* Faulty variant of Handled: a ResultMessage is recorded and the loop goes on to
\* the next message instead of returning.
HandledWithoutReturn(e, kind) ==
    CASE kind = "assistant" ->
           [e EXCEPT !.phase = "recv", !.store = Append(@, "block")]
      [] kind = "result_error" ->
           [e EXCEPT !.phase = "recv", !.store = Append(@, "error")]
      [] kind = "result_ok" ->
           [e EXCEPT !.phase = "recv", !.store = Append(@, "result")]
      [] OTHER -> [e EXCEPT !.phase = "recv"]

\* The loop body on a message of the given kind, when nothing in it raises:
\* an AssistantMessage has its block saved; an error ResultMessage has the
\* error saved and None returned; another ResultMessage has the result saved
\* and returned; any other message is passed over.
Handled(e, kind) ==
    CASE kind = "assistant" ->
           [e EXCEPT !.phase = "recv", !.store = Append(@, "block")]
      [] kind = "result_error" ->
           [e EXCEPT !.phase = "exit", !.pending = "None", !.store = Append(@, "error")]
      [] kind = "result_ok" ->
           [e EXCEPT !.phase = "exit", !.pending = "result", !.store = Append(@, "result")]
      [] OTHER -> [e EXCEPT !.phase = "recv"]

\* The loop body on the message just received; a message that is passed
\* over has nothing in it that can raise.
E_handle ==
    /\ eng.phase = "handle"
    /\ LET n == eng.received
           e == [eng EXCEPT !.handled = Append(@, n)] IN
       \E ok \in BOOLEAN :
         /\ ~ok => eng.stream[n] # "other"
         /\ eng' = IF ok THEN Handled(e, eng.stream[n]) ELSE RaisedInSession(e)
    /\ UNCHANGED <<browserVars, cfg>>

\* The return statement leaves the async with: the client disconnects, and
\* the value is returned unless the disconnect raises.
E_exit ==
    /\ eng.phase = "exit"
    /\ \E ok \in BOOLEAN :
         eng' = IF ok
                THEN [eng EXCEPT !.phase = "done",
                                 !.ret = "returned",
                                 !.value = IF eng.pending = "result"
                                           THEN Some(ResultDict) ELSE None,
                                 !.pending = "none"]
                ELSE RaisedInSession(eng)
    /\ UNCHANGED <<browserVars, cfg>>

\* except Exception as e: self.message_store.save_error(str(e)); return None
\* (a failure of save_error here leaves the function as an exception)
E_except ==
    /\ eng.phase = "except"
    /\ \E ok \in BOOLEAN :
         eng' = IF ok
                THEN [eng EXCEPT !.phase = "done", !.ret = "returned",
                                 !.value = None, !.store = Append(@, "error")]
                ELSE [eng EXCEPT !.phase = "done", !.ret = "raised"]
    /\ UNCHANGED <<browserVars, cfg>>

EngineerNext ==
    \/ E_call \/ E_save_prompt \/ E_enter \/ E_query \/ E_recv \/ E_handle
    \/ E_exit \/ E_except

SpecEngineer == EngineerInit /\ [][EngineerNext]_vars

\* ================================================================ claims
\* The Metadata Record on disk (only used where world.metadata # None).
Meta == world.metadata[1]

\* The elements of a sequence.
Range(q) == {q[i] : i \in DOMAIN q}

\* Some close() has returned: the session reached CLOSED.
Closed == Len(hist.closeReturned) > 0

\* The teardown steps that stop or close something.
Destructive == {"ctx", "br", "pw"}

\* The order of the teardown steps as the specification states it.
StatedOrder == <<"ctx", "br", "pw", "meta">>
Rank(s) == CHOOSE k \in DOMAIN StatedOrder : StatedOrder[k] = s

\* C1 as stated: once close() has returned, a Metadata Record exists, it has
\* a start time, its end time is not earlier than its start time, and its
\* har_file is the path every close() and start() call returned.
C1_MetadataOfEveryClosed ==
    Closed =>
        /\ world.metadata # None
        /\ Meta.start_time # None
        /\ Meta.end_time >= Meta.start_time[1]
        /\ \A r \in Range(hist.closeReturned) \cup Range(hist.startReturned) :
              Meta.har_file = r

\* C1 amended: once close() has returned on a session whose start() was
\* called, a Metadata Record exists, it carries the session's start time, its
\* end time is not earlier than its start time, and its har_file is the path
\* every close() and start() call returned; when start() was never called
\* the record exists with the same har_file and no start time.
C1_MetadataOfStartedClosed ==
    Closed =>
        /\ world.metadata # None
        /\ Meta.start_time = self._start_time
        /\ (hist.startResult # "none") = (Meta.start_time # None)
        /\ Meta.start_time # None => Meta.end_time >= Meta.start_time[1]
        /\ \A r \in Range(hist.closeReturned) \cup Range(hist.startReturned) :
              Meta.har_file = r

\* C1 witness: start() returned after its close(), and the clock advanced
\* between the start and the end of the session.
C1_Witness ==
    /\ hist.startResult = "returned"
    /\ Closed
    /\ world.metadata # None
    /\ Meta.start_time # None
    /\ Meta.end_time > Meta.start_time[1]

\* C2: close() calls in sequence return the same path; a close() that begins
\* after a close() has returned issues no context close, browser close or
\* driver stop; and while no signal handler has run, the context is closed at
\* most once, the browser at most once and the driver stopped at most once
\* over all the calls.
C2_CloseTwice ==
    /\ \A i, j \in DOMAIN hist.closeReturned :
          hist.closeReturned[i] = hist.closeReturned[j]
    /\ hist.afterReturn => Range(hist.closeTrace) \cap Destructive = {}
    /\ sig.sent = 0 =>
          /\ hist.ctxCloseCalls <= 1
          /\ hist.brCloseCalls <= 1
          /\ hist.pwStopCalls <= 1

\* C2 witness: a second close() has returned after one that closed the
\* context, the browser and the driver, with no signal involved.
C2_Witness ==
    /\ Len(hist.closeReturned) >= 2
    /\ hist.afterReturn
    /\ sig.sent = 0
    /\ hist.ctxCloseCalls = 1 /\ hist.brCloseCalls = 1 /\ hist.pwStopCalls = 1

\* C3 as stated: a close() run by the signal handler that began while a
\* close() was executing or after one had returned issues no teardown step at
\* all: no context close, browser close, driver stop or metadata write.
C3_LateSignalIsNoOp ==
    (hdepth > 0 /\ hist.lateEntry) => hist.closeTrace = <<>>

\* C4: with use_real_chrome set and the profile absent, launch_persistent_context
\* is never called and the temporary profile is never made; when start()
\* returns, exactly one fallback browser was launched, its context recorded
\* the HAR, the context close was issued and the artifact path is the return
\* value; and the polling loop of the fallback path, finding no page open,
\* goes to the call of close().
C4_FallbackWhenProfileAbsent ==
    /\ [](  (self.use_real_chrome /\ ~world.profileExists) =>
              /\ hist.persistentLaunches = 0
              /\ path # "real"
              /\ ~self._using_persistent
              /\ world.tempDir = "none"
              /\ hist.startResult = "returned" =>
                    /\ path = "fallback"
                    /\ hist.fallbackLaunches = 1
                    /\ world.ctxKind = "ephemeral"
                    /\ world.ctxHar
                    /\ hist.ctxCloseCalls >= 1
                    /\ hist.startReturned = <<HarPath>> )
    /\ [][ (/\ self.use_real_chrome /\ ~world.profileExists
            /\ pc = "f_poll" /\ cpc = "none" /\ world.pages = 0
            /\ pc' # pc)
           => (pc' = "f_close" /\ cpc' = "none") ]_vars

\* C4 witness: the profile was absent, use_real_chrome was set, and start()
\* has returned the artifact path through the fallback path.
C4_Witness ==
    /\ self.use_real_chrome /\ ~world.profileExists
    /\ hist.startResult = "returned"
    /\ path = "fallback"
    /\ hist.closedFromPoll = "empty"

\* C5: after a signal arrives while the thread is in the polling loop, fewer
\* than two polls complete, and as soon as the handler has been run the
\* session is in close(), however many pages are open.
C5_SignalPreemptsPoll ==
    hist.signalInActive =>
        /\ hist.pollsSinceSignal <= 1
        /\ ~sig.pending => hist.closeEntries > 0

\* C5 witness: the signal arrived in the polling loop with pages open, and
\* the handler's close() has begun while they are still open.
C5_Witness ==
    /\ hist.signalInActive
    /\ hdepth > 0 /\ cpc = "c_time"
    /\ world.pages > 0
    /\ hist.pollsSinceSignal = 0

\* C6 as stated: when a launch step (browser launch, persistent-context
\* launch, context creation) has raised and start() has propagated the
\* failure to its caller, a teardown (a close()) has been performed.
C6_TeardownBeforeLaunchFailure ==
    (hist.launchFailed /\ hist.startResult = "raised") => hist.closeEntries > 0

\* C7 as stated: when navigation to the starting URL has failed, no exception
\* is in flight in start() or raised by it, and the session has entered the
\* polling loop.
C7_NavigationFailureNonFatal ==
    hist.navFailed =>
        /\ exc # "Exception"
        /\ hist.startResult # "raised"
        /\ hist.enteredActive

\* C8 as stated: when start() has ended (returned, raised or exited) after a
\* browser was launched, the Metadata Record has been written.
C8_MetadataWhenLaunched ==
    (hist.everLaunched /\ hist.startResult \in {"returned", "raised", "exited"})
        => world.metadata # None

\* C9: the teardown steps one close() issues come in the stated order
\* (context, browser, driver, metadata), and a step is issued only after
\* every earlier step applicable to this close() (its handle was present
\* when the close() began) has been issued.
C9_TeardownOrder ==
    LET t == hist.closeTrace IN
    /\ \A i, j \in DOMAIN t : i < j => Rank(t[i]) < Rank(t[j])
    /\ \A i \in DOMAIN t : \A s \in hist.atEntry :
          Rank(s) < Rank(t[i]) => \E k \in 1..(i - 1) : t[k] = s

\* C9 witness: a close() on the fallback path is about to return having
\* issued all four steps.
C9_Witness ==
    /\ cpc = "ret"
    /\ hist.closeTrace = StatedOrder

\* C10: no close() ever propagates an exception; each step that raised was
\* followed by the rest: a close() about to return has issued every step
\* applicable to it and has written the Metadata Record, whichever of its
\* steps raised; and what it returns is the artifact path.
C10_BestEffortTeardown ==
    /\ ~hist.closeRaised
    /\ hist.closeFailed \subseteq Range(hist.closeTrace)
    /\ cpc \in {"ret", "h_exit"} =>
          /\ hist.atEntry \subseteq Range(hist.closeTrace)
          /\ "meta" \in Range(hist.closeTrace)
          /\ world.metadata # None
    /\ \A r \in Range(hist.closeReturned) : r = HarPath

\* C10 witness: the context close, the browser close and the driver stop all
\* raised, and close() is about to return with the metadata written.
C10_Witness ==
    /\ cpc = "ret"
    /\ hist.closeFailed = Destructive
    /\ hist.closeTrace = StatedOrder

\* C11 as stated: a finalized Capture Artifact exists exactly when some
\* close() has returned (the session reached CLOSED).
C11_ArtifactIffClosed ==
    world.harFinalized <=> Closed

\* C11 amended: the artifact is finalized by a context close that did not
\* raise, and by nothing else: it is finalized only once a close() has
\* issued the context close (during CLOSING, before close() returns), and a
\* close() that held a context handle and whose context close did not raise
\* has a finalized artifact from that step on; a close() whose context close
\* raised, or that held no context, finalizes nothing.
C11_ArtifactIffContextClosed ==
    /\ world.harFinalized => (hist.ctxCloseCalls >= 1 /\ hist.closeEntries >= 1)
    /\ (/\ cpc \in {"ctx_clear", "br", "br_clear", "pw", "pw_clear", "meta", "ret"}
        /\ "ctx" \in hist.atEntry
        /\ "ctx" \notin hist.closeFailed) => world.harFinalized
    /\ (hist.ctxCloseCalls = 1 /\ "ctx" \in hist.closeFailed) => ~world.harFinalized
    /\ hist.ctxCloseCalls = 0 => ~world.harFinalized

\* C11 witness: close() is still running (its metadata is not yet written,
\* nothing has returned) and the artifact is already finalized.
C11_Witness ==
    /\ world.harFinalized
    /\ ~Closed
    /\ cpc = "meta"
    /\ hist.startResult = "running"

\* C12: on the fallback path both fingerprint-evasion overrides (the stealth
\* evasions and the STEALTH_JS init script) are registered on the context
\* before its first page is created and before any navigation: no page of an
\* ephemeral context was ever created without them, every page open in an
\* ephemeral context has them, and the fallback path is at or past the
\* navigation step only with both registered.
C12_OverridesBeforeFirstPage ==
    /\ ~hist.exposedPage
    /\ (world.ctxKind = "ephemeral" /\ world.pages > 0)
          => (world.evasions /\ world.initScript)
    /\ (path = "fallback" /\ pc \in {"f_goto", "f_poll", "f_wait", "f_close"})
          => (world.evasions /\ world.initScript)

\* C12 witness: the fallback context has its first page and a second one the
\* user opened, both with the overrides, while the session is being polled.
C12_Witness ==
    /\ path = "fallback"
    /\ world.ctxKind = "ephemeral"
    /\ world.pages = 2
    /\ pc = "f_wait"
    /\ world.evasions /\ world.initScript

\* C13 as stated: on the real-browser path, whenever the session has ended
\* (start() returned, raised, or the process exited) with a temporary profile
\* directory created, its deletion was attempted, and the deletion is never
\* attempted while the session's browser context is still open.
C13_TempDirDeletedAfterContext ==
    /\ (hist.startResult \in {"returned", "raised", "exited"} /\ world.tempDir # "none")
          => hist.rmtreeTried
    /\ ~hist.rmtreeCtxOpen

\* C14 as stated: whenever the real-browser launch was issued, the directory
\* handed to the browser is the temporary directory, never the real profile
\* directory, and it holds a copy of the real profile's contents.
C14_LaunchedOnProfileCopy ==
    hist.persistentLaunches > 0 =>
        /\ world.tempDir # "none"
        /\ world.userDataDir # "real"
        /\ world.tempDirCopied

\* C15: start() hands the capture-artifact path to its caller only after the
\* session is CLOSED: whenever start() has returned, it returned the HAR
\* path, a close() has returned before it, and the context close, the
\* top-level browser close (fallback path; the real path has none), the
\* driver stop and the metadata write have all been attempted.
C15_PathOnlyAfterClosed ==
    hist.startResult = "returned" =>
        /\ hist.startReturned = <<HarPath>>
        /\ Closed
        /\ hist.ctxCloseCalls >= 1
        /\ (path = "fallback" => hist.brCloseCalls >= 1)
        /\ hist.pwStopCalls >= 1
        /\ hist.metaWrites >= 1
        /\ world.metadata # None
        /\ world.ctxState = "closed"

\* C15 witness: start() has returned the path on the real-browser path, after
\* the finally clause.
C15_Witness ==
    /\ hist.startResult = "returned"
    /\ path = "real"
    /\ hist.startReturned = <<HarPath>>
    /\ hist.rmtreeTried

\* C16 as stated: with no signal delivered, close() is never entered from
\* the polling loop while a page of the context is still open.
C16_PollLeavesOnlyWhenNoPages ==
    sig.sent = 0 => hist.closedFromPoll # "pagesOpen"

\* C17: liveness, under SpecFair: once the session is in the polling loop and
\* no page of the context is left open, a close() eventually completes, and
\* unless a signal has ended the process start() eventually returns the
\* path, whichever teardown steps fail on the way.
C17_EmptyContextLeadsToClosed ==
    (pc \in ActivePcs /\ cpc = "none" /\ world.pages = 0)
        ~> (Closed /\ (sig.sent = 0 => hist.startResult = "returned"))

\* C17 witness: the loop saw the context without pages, every teardown step
\* of the close() it led to failed, and start() returned nevertheless.
C17_Witness ==
    /\ hist.closedFromPoll = "empty"
    /\ hist.startResult = "returned"
    /\ sig.sent = 0
    /\ world.harFinalized = FALSE
    /\ hist.ctxCloseCalls = 1

\* C18: the top-level browser close is issued only for a non-persistent
\* Browser Handle: off the fallback path (real-browser path, or no path yet)
\* no close() ever issues it, whatever was called and whenever a signal
\* came; a close() that issues it is on the fallback path with the
\* persistent flag unset, and has issued the close of the context it held
\* before it.
C18_BrowserCloseOnlyEphemeral ==
    LET t == hist.closeTrace IN
    /\ path # "fallback" => (hist.brCloseCalls = 0 /\ self._browser = "None")
    /\ self._using_persistent => (path = "real" /\ hist.brCloseCalls = 0)
    /\ \A i \in DOMAIN t :
          t[i] = "br" =>
             /\ path = "fallback"
             /\ ~self._using_persistent
             /\ "ctx" \in hist.atEntry => \E k \in 1..(i - 1) : t[k] = "ctx"
             /\ \A k \in DOMAIN t : t[k] = "ctx" => k < i

\* C18 witness: on the real-browser path start() has returned, a later
\* close() by the caller has returned too, and only the context was closed.
C18_Witness ==
    /\ path = "real"
    /\ self._using_persistent
    /\ hist.startResult = "returned"
    /\ hist.callerCloses >= 1
    /\ Len(hist.closeReturned) >= 2
    /\ hist.ctxCloseCalls >= 1
    /\ hist.brCloseCalls = 0

\* C19: the launch path is decided once and the only downgrade is on an
\* absent profile: the fallback browser is launched only if use_real_chrome
\* is false or the profile directory is absent, the real browser only if
\* use_real_chrome is true and the profile exists, a session issues at most
\* one launch in all (so a failed real-browser launch is never followed by a
\* fallback launch), and the path taken is the fallback path exactly when
\* use_real_chrome is false or the profile is absent.
C19_PathDecidedOnce ==
    LET downgrade == ~self.use_real_chrome \/ ~world.profileExists IN
    /\ hist.fallbackLaunches > 0 => downgrade
    /\ hist.persistentLaunches > 0 => ~downgrade
    /\ hist.fallbackLaunches + hist.persistentLaunches <= 1
    /\ path # "none" => (path = "fallback" <=> downgrade)
    /\ path = "real" => pc \notin {"f_launch", "f_browser_store", "f_new_context",
                                   "f_ctx_store", "f_stealth", "f_init_script",
                                   "f_page", "f_goto", "f_poll", "f_wait", "f_close"}

\* C19 witness: the profile exists, the real-browser launch raised, start()
\* raised to its caller, and no fallback browser was launched.
C19_Witness ==
    /\ self.use_real_chrome /\ world.profileExists
    /\ path = "real"
    /\ hist.launchFailed
    /\ hist.startResult = "raised"
    /\ hist.persistentLaunches = 1
    /\ hist.fallbackLaunches = 0

C21_CloseOfNeverOpened ==
    (hist.closeEntries > 0 /\ hist.atEntry = {}) =>
        /\ ~hist.closeRaised
        /\ Range(hist.closeTrace) \subseteq {"meta"}
        /\ hist.closeFailed = {}
        /\ cpc \in {"ret", "h_exit"} =>
              /\ hist.closeTrace = <<"meta">>
              /\ world.metadata # None
              /\ Meta.har_file = HarPath
        /\ hist.closeEntries = 1 =>
              /\ hist.ctxCloseCalls = 0
              /\ hist.brCloseCalls = 0
              /\ hist.pwStopCalls = 0

\* C21 witness: start() was interrupted by a signal before the driver handle
\* was stored, and the handler's close() is about to return having written
\* only the metadata.
C21_Witness ==
    /\ hist.startResult = "running"
    /\ hdepth > 0
    /\ cpc = "ret"
    /\ hist.atEntry = {}
    /\ hist.closeTrace = <<"meta">>
    /\ self._playwright = "None"
    /\ world.metadata # None

\* C22: on both launch paths the session enters the polling loop with an
\* open context that has at least one page: the fallback path's page step
\* opens exactly one new page in a context that had none, and the
\* real-browser path's page step keeps the pages of a context that has some
\* and opens one in a context that has none.
C22_PageEnsuredBeforePolling ==
    [][ /\ (pc \notin ActivePcs /\ pc' \in {"r_poll", "f_poll"}) =>
              /\ world.pages' >= 1
              /\ world.ctxState' = "open"
              /\ pc' = "f_poll" => world.pages' = 1
        /\ (pc = "f_page" /\ pc' \in {"f_goto", "f_poll"}) =>
              (world.pages = 0 /\ world.pages' = 1)
        /\ (pc = "r_page" /\ pc' \in {"r_goto", "r_poll"}) =>
              world.pages' = (IF world.pages > 0 THEN world.pages ELSE 1) ]_vars

\* C22 witness: the real-browser path stands at the head of the polling loop
\* for the first time, without navigation, with one page open.
C22_Witness ==
    /\ path = "real"
    /\ pc = "r_poll" /\ cpc = "none" /\ hdepth = 0
    /\ ~start_url
    /\ hist.closedFromPoll = "no"
    /\ world.ctxState = "open"
    /\ world.pages = 1

\* C23 as stated: after construction or any load() the configuration's key
\* set is that of DEFAULT_CONFIG; and a construction or load() that found
\* the file absent, unreadable or not valid JSON raised nothing and left the
\* configuration as it was (the defaults, at construction).
C23_DefaultKeysAndSilentLoad ==
    cfg.lastOp \in {"init", "load"} =>
        /\ cfg.constructed => DOMAIN cfg.config = DOMAIN DEFAULT_CONFIG
        /\ cfg.file.kind \in {"absent", "unreadable", "badjson", "undecodable"} =>
              /\ cfg.raised = "none"
              /\ cfg.config = cfg.before

\* C24 as stated: the messages are handled in arrival order up to the first
\* ResultMessage and none after it; the call returns a result (with the
\* script path) if and only if that first ResultMessage is not an error and
\* no exception was raised before it; and on an error ResultMessage or an
\* exception inside the client session the error is in the message store
\* and None is returned.
C24_ResultIffFirstResultOk ==
    LET r == eng.resultSeen
        firstOk == r > 0 /\ eng.stream[r] = "result_ok"
        firstError == r > 0 /\ eng.stream[r] = "result_error" IN
    /\ eng.handled = [i \in 1..Len(eng.handled) |-> i]
    /\ r > 0 => (Len(eng.handled) <= r /\ eng.received = r)
    /\ eng.phase = "done" =>
          /\ (eng.ret = "returned" /\ eng.value = Some(ResultDict))
                <=> (firstOk /\ ~eng.raisedBefore)
          /\ (firstError \/ eng.raisedInSession) =>
                /\ eng.ret = "returned"
                /\ eng.value = None
                /\ \E i \in DOMAIN eng.store : eng.store[i] = "error"

\* C24 amended: the messages are handled in arrival order up to the first
\* ResultMessage and none after it; the call returns a result (with the
\* script path, saved in the message store) if and only if that first
\* ResultMessage is not an error and no exception was raised anywhere inside
\* the try block: before the message, while handling it, or when the client
\* session is left.  On an error ResultMessage or an exception inside the
\* client session no result is returned, and None is returned with the error
\* in the message store unless saving the error in the except clause itself
\* fails, in which case the call raises.  A stream that ends without a
\* ResultMessage gives None with no error recorded.
C24_ResultIffSessionClean ==
    LET r == eng.resultSeen
        firstOk == r > 0 /\ eng.stream[r] = "result_ok"
        firstError == r > 0 /\ eng.stream[r] = "result_error"
        errors == {i \in DOMAIN eng.store : eng.store[i] = "error"}
        results == {i \in DOMAIN eng.store : eng.store[i] = "result"} IN
    /\ eng.handled = [i \in 1..Len(eng.handled) |-> i]
    /\ r > 0 => (Len(eng.handled) <= r /\ eng.received = r)
    /\ eng.phase = "done" =>
          /\ eng.ret \in {"returned", "raised"}
          /\ (eng.ret = "returned" /\ eng.value = Some(ResultDict))
                <=> (firstOk /\ ~eng.raisedInSession)
          /\ eng.value # None => (eng.value = Some(ResultDict) /\ results # {})
          /\ (firstError \/ eng.raisedInSession) =>
                /\ eng.value = None
                /\ eng.ret = "returned" => errors # {}
          /\ eng.ret = "raised" => (eng.raisedInSession \/ eng.store = <<>>)
          /\ (r = 0 /\ ~eng.raisedInSession /\ eng.ret = "returned") =>
                /\ eng.value = None
                /\ errors = {}
                /\ Len(eng.handled) = Len(eng.stream)

\* C24 witness: an AssistantMessage, then a ResultMessage that is not an
\* error, then a further message that is never received: the result is
\* returned.
C24_Witness ==
    /\ eng.phase = "done"
    /\ eng.stream = <<"assistant", "result_ok", "assistant">>
    /\ eng.handled = <<1, 2>>
    /\ eng.ret = "returned"
    /\ eng.value = Some(ResultDict)
    /\ eng.store = <<"prompt", "block", "result">>

====
